---------------------------- MODULE Spec2Model ----------------------------
(***************************************************************************)
(* A model of coloursum: the line classifier (find_bsd_tag_line,           *)
(* find_sum_prefixed_line, FormattableLine::from), the line assembly       *)
(* (Line::to_formatted), the three format_hash variants and the driving    *)
(* loop (Line::coloursum).                                                 *)
(*                                                                         *)
(* A string is a sequence of characters; a character is its Unicode code   *)
(* point, so that UTF-8 widths, ASCII digits and base-16 digits are        *)
(* computed as the Rust standard library computes them.  An Option is a    *)
(* sequence of length at most one: None is << >>, Some(x) is << x >>.      *)
(***************************************************************************)
EXTENDS Integers, Sequences, FiniteSets, TLC

VARIABLES
    mode,               \* the formatter variant (the type implementing Line)
    pc,                 \* position of the scenario being run
    contents,           \* FormattableLine.contents
    formattable_start,  \* FormattableLine.formattable_start : Option<usize>
    formattable_end,    \* FormattableLine.formattable_end   : Option<usize>
    formatted,          \* what to_formatted wrote to the fmt::Formatter
    hash,               \* the argument of format_hash
    hash_result,        \* the value format_hash returned
    input,              \* the lines the reader `from` yields
    nread,              \* how many lines of `input` have been read
    output,             \* the characters written to the writer `to`
    result              \* what coloursum returned

vars == << mode, pc, contents, formattable_start, formattable_end, formatted,
           hash, hash_result, input, nread, output, result >>

----------------------------------------------------------------------------
(* Bounds of the model.                                                    *)

MaxLineLen == 6
MaxHashLen == 4
MaxDigestLen == 12
MaxLines == 3

----------------------------------------------------------------------------
(* Characters and strings.                                                 *)

\* The code point of a character written as a one-character TLA+ string.
Ord(c) ==
    CASE c = "\n" -> 10
      [] c = "ESC" -> 27
      [] c = " " -> 32
      [] c = "(" -> 40
      [] c = ")" -> 41
      [] c = "+" -> 43
      [] c = "-" -> 45
      [] c = "." -> 46
      [] c = "/" -> 47
      [] c = "0" -> 48
      [] c = "1" -> 49
      [] c = "2" -> 50
      [] c = "3" -> 51
      [] c = "4" -> 52
      [] c = "5" -> 53
      [] c = "6" -> 54
      [] c = "7" -> 55
      [] c = "8" -> 56
      [] c = "9" -> 57
      [] c = ";" -> 59
      [] c = "=" -> 61
      [] c = "A" -> 65
      [] c = "B" -> 66
      [] c = "C" -> 67
      [] c = "D" -> 68
      [] c = "E" -> 69
      [] c = "F" -> 70
      [] c = "M" -> 77
      [] c = "S" -> 83
      [] c = "[" -> 91
      [] c = "a" -> 97
      [] c = "b" -> 98
      [] c = "c" -> 99
      [] c = "d" -> 100
      [] c = "e" -> 101
      [] c = "f" -> 102
      [] c = "g" -> 103
      [] c = "i" -> 105
      [] c = "m" -> 109
      [] c = "n" -> 110
      [] c = "r" -> 114
      [] c = "s" -> 115
      [] c = "e-acute" -> 233
      [] c = "smile" -> 128516

\* The string whose characters are written one by one.
Str(cs) == [i \in 1..Len(cs) |-> Ord(cs[i])]

None == << >>
Some(x) == << x >>

\* char::len_utf8: the number of bytes of a character in a Rust String.
len_utf8(c) ==
    IF c < 128 THEN 1 ELSE IF c < 2048 THEN 2 ELSE IF c < 65536 THEN 3 ELSE 4

\* The byte offset at which the character after the first k characters starts.
RECURSIVE ByteOffset(_, _)
ByteOffset(s, k) ==
    IF k = 0 THEN 0 ELSE ByteOffset(s, k - 1) + len_utf8(s[k])

\* str::len: the length in bytes.
StrLen(s) == ByteOffset(s, Len(s))

\* str::is_char_boundary: byte offset `off` starts a character or ends the string.
is_char_boundary(s, off) == \E k \in 0..Len(s) : ByteOffset(s, k) = off

\* The number of characters before the char boundary `off`.
CharsBefore(s, off) == CHOOSE k \in 0..Len(s) : ByteOffset(s, k) = off

\* Whether the slice s[a..b] by byte offsets is in range (it panics otherwise).
SliceOk(s, a, b) == a <= b /\ is_char_boundary(s, a) /\ is_char_boundary(s, b)

\* The slice s[a..b] by byte offsets.
Slice(s, a, b) == SubSeq(s, CharsBefore(s, a) + 1, CharsBefore(s, b))

\* The character positions (counted from 0) at which `needle` occurs in `s`.
Matches(s, needle) ==
    { k \in 0..(Len(s) - Len(needle)) : SubSeq(s, k + 1, k + Len(needle)) = needle }

SetMax(S) == CHOOSE x \in S : \A y \in S : y <= x
SetMin(S) == CHOOSE x \in S : \A y \in S : x <= y

\* str::find: the byte offset of the first occurrence.
find(s, needle) ==
    IF Matches(s, needle) = {} THEN None
    ELSE Some(ByteOffset(s, SetMin(Matches(s, needle))))

\* str::rfind: the byte offset of the last occurrence.
rfind(s, needle) ==
    IF Matches(s, needle) = {} THEN None
    ELSE Some(ByteOffset(s, SetMax(Matches(s, needle))))

----------------------------------------------------------------------------
(* The line classifier.                                                    *)

BsdNeedle == Str(<< " ", "=", " " >>)
SumNeedle == Str(<< " ", " " >>)

\* A variant of find_bsd_tag_line that searches from the front (find for rfind).
find_bsd_tag_line_First(line) ==
    IF find(line, BsdNeedle) = None THEN None
    ELSE Some(find(line, BsdNeedle)[1] + StrLen(BsdNeedle))

\* Detects the starting offset of the hash in a BSD md5(1) style line.
find_bsd_tag_line(line) ==
    IF rfind(line, BsdNeedle) = None THEN None
    ELSE Some(rfind(line, BsdNeedle)[1] + StrLen(BsdNeedle))

\* A variant of find_sum_prefixed_line that searches from the back.
find_sum_prefixed_line_Last(line) == rfind(line, SumNeedle)

\* Detects the ending offset of the hash in a GNU md5sum(1) style line.
find_sum_prefixed_line(line) == find(line, SumNeedle)

\* A variant of FormattableLine::from that records both searches (two ifs
\* for the if / else if).
FormattableLine_from_Both(line) ==
    [contents |-> line,
     formattable_start |-> find_bsd_tag_line(line),
     formattable_end |-> find_sum_prefixed_line(line)]

\* A variant of FormattableLine::from that tries the two-space form first.
FormattableLine_from_SumFirst(line) ==
    IF find_sum_prefixed_line(line) # None
    THEN [contents |-> line,
          formattable_start |-> None,
          formattable_end |-> Some(find_sum_prefixed_line(line)[1])]
    ELSE IF find_bsd_tag_line(line) # None
    THEN [contents |-> line,
          formattable_start |-> Some(find_bsd_tag_line(line)[1]),
          formattable_end |-> None]
    ELSE [contents |-> line,
          formattable_start |-> None,
          formattable_end |-> None]

\* FormattableLine::from: the record built from a line.
FormattableLine_from(line) ==
    IF find_bsd_tag_line(line) # None
    THEN [contents |-> line,
          formattable_start |-> Some(find_bsd_tag_line(line)[1]),
          formattable_end |-> None]
    ELSE IF find_sum_prefixed_line(line) # None
    THEN [contents |-> line,
          formattable_start |-> None,
          formattable_end |-> Some(find_sum_prefixed_line(line)[1])]
    ELSE [contents |-> line,
          formattable_start |-> None,
          formattable_end |-> None]

----------------------------------------------------------------------------
(* The digest formatters.                                                  *)

\* char::to_digit(16): the value of a base-16 digit, None for any other character.
to_digit16(c) ==
    IF c >= 48 /\ c <= 57 THEN Some(c - 48)
    ELSE IF c >= 97 /\ c <= 102 THEN Some(c - 97 + 10)
    ELSE IF c >= 65 /\ c <= 70 THEN Some(c - 65 + 10)
    ELSE None

\* char::is_ascii_digit.
is_ascii_digit(c) == c >= 48 /\ c <= 57

\* The digits of from_str_radix, accumulated left to right with u8's checked
\* arithmetic: None for a character that is no digit or a value over 255.
RECURSIVE ParseDigits(_, _)
ParseDigits(digits, acc) ==
    IF digits = << >> THEN Some(acc)
    ELSE IF to_digit16(Head(digits)) = None THEN None
    ELSE IF acc * 16 + to_digit16(Head(digits))[1] > 255 THEN None
    ELSE ParseDigits(Tail(digits), acc * 16 + to_digit16(Head(digits))[1])

\* u8::from_str_radix(src, 16): Some(value) for Ok, None for Err.  The empty
\* string and a lone sign are errors, a leading "+" is skipped, and a "-" is
\* not a digit of an unsigned type.
u8_from_str_radix16(src) ==
    IF src = << >> THEN None
    ELSE IF Len(src) = 1 /\ (src[1] = Ord("+") \/ src[1] = Ord("-")) THEN None
    ELSE IF src[1] = Ord("+") THEN ParseDigits(Tail(src), 0)
    ELSE ParseDigits(src, 0)

\* The decimal digits of a number, as Display writes a u8.
RECURSIVE Decimal(_)
Decimal(n) ==
    IF n < 10 THEN << 48 + n >>
    ELSE Decimal(n \div 10) \o << 48 + (n % 10) >>

\* ansi_term's Fixed(n).paint(s).to_string(): the 256-colour foreground escape
\* that selects colour n, the text, and the reset escape.
Paint(n, s) ==
    Str(<< "ESC", "[", "3", "8", ";", "5", ";" >>) \o Decimal(n) \o Str(<< "m" >>)
        \o s \o Str(<< "ESC", "[", "0", "m" >>)

\* itertools' chunks(2) over hash.chars(): the number of chunks, and the i-th
\* chunk (the last one holds one character when the length is odd).
NumChunks(s) == (Len(s) + 1) \div 2
Chunk(s, i) == SubSeq(s, 2 * i - 1, IF 2 * i <= Len(s) THEN 2 * i ELSE Len(s))

\* Whether every chunk parses: collect() into a Result yields Ok.
AllChunksParse(s) ==
    \A i \in 1..NumChunks(s) : u8_from_str_radix16(Chunk(s, i)) # None

\* The chunks from the i-th on, each painted with its own value, concatenated.
RECURSIVE PaintChunksFrom(_, _)
PaintChunksFrom(s, i) ==
    IF i > NumChunks(s) THEN << >>
    ELSE Paint(u8_from_str_radix16(Chunk(s, i))[1], Chunk(s, i))
             \o PaintChunksFrom(s, i + 1)

\* The chunks from the i-th on, all painted with colour n.
RECURSIVE ConcatPainted(_, _, _)
ConcatPainted(s, n, i) ==
    IF i > NumChunks(s) THEN << >>
    ELSE Paint(n, Chunk(s, i)) \o ConcatPainted(s, n, i + 1)

\* A variant of ANSIColouredLine::format_hash that paints every chunk with
\* the colour of the string's last chunk.
ANSIColouredLine_format_hash_OneColour(h) ==
    IF AllChunksParse(h)
    THEN ConcatPainted(h, u8_from_str_radix16(Chunk(h, NumChunks(h)))[1], 1)
    ELSE h

\* ANSIColouredLine::format_hash.
ANSIColouredLine_format_hash(h) ==
    IF AllChunksParse(h) THEN PaintChunksFrom(h, 1) ELSE h

\* The bytes the chunks parse to, in order (collect() into a Vec<u8>).
ParsedBytes(s) == [i \in 1..NumChunks(s) |-> u8_from_str_radix16(Chunk(s, i))[1]]

\* A variant of OnePasswordLine::format_hash that takes every base-16 digit
\* for a digit (to_digit(16) for is_ascii_digit).
RECURSIVE OnePasswordLine_format_hash_Hex(_)
OnePasswordLine_format_hash_Hex(h) ==
    IF h = << >> THEN << >>
    ELSE (IF to_digit16(Head(h)) # None THEN Paint(4, << Head(h) >>) ELSE << Head(h) >>)
             \o OnePasswordLine_format_hash_Hex(Tail(h))

\* OnePasswordLine::format_hash: each character mapped on its own.
RECURSIVE OnePasswordLine_format_hash(_)
OnePasswordLine_format_hash(h) ==
    IF h = << >> THEN << >>
    ELSE (IF is_ascii_digit(Head(h)) THEN Paint(4, << Head(h) >>) ELSE << Head(h) >>)
             \o OnePasswordLine_format_hash(Tail(h))

----------------------------------------------------------------------------
(* The Ecoji encoding (the ecoji crate's encode_to_string).                *)

\* The i-th symbol of the emoji alphabet, i in 0..1023.  The alphabet is a
\* fixed table of 1024 distinct code points; a symbol is kept as its index,
\* placed in a range that no other character of the model uses.
EMOJIS(i) == 1048576 + i

\* The padding symbols: the one that fills a short block, and the four that
\* end a block of four bytes, which carry the last two bits.
PADDING == 9749
PADDING_40 == 9884
PADDING_41 == 127949
PADDING_42 == 128209
PADDING_43 == 128587

\* The k-th byte (from 0) of a block, 0 past its end.
ByteAt(s, k) == IF k < Len(s) THEN s[k + 1] ELSE 0

\* One block of 1 to 5 bytes: always four symbols.
encode_chunk(s) ==
    LET b0 == ByteAt(s, 0)
        b1 == ByteAt(s, 1)
        b2 == ByteAt(s, 2)
        b3 == ByteAt(s, 3)
        b4 == ByteAt(s, 4)
        c0 == EMOJIS(b0 * 4 + (b1 \div 64))
        c1 == EMOJIS((b1 % 64) * 16 + (b2 \div 16))
        c2 == EMOJIS((b2 % 16) * 64 + (b3 \div 4))
        c3 == EMOJIS((b3 % 4) * 256 + b4)
    IN  CASE Len(s) = 1 -> << c0, PADDING, PADDING, PADDING >>
          [] Len(s) = 2 -> << c0, c1, PADDING, PADDING >>
          [] Len(s) = 3 -> << c0, c1, c2, PADDING >>
          [] Len(s) = 4 ->
                << c0, c1, c2,
                   CASE b3 % 4 = 0 -> PADDING_40
                     [] b3 % 4 = 1 -> PADDING_41
                     [] b3 % 4 = 2 -> PADDING_42
                     [] b3 % 4 = 3 -> PADDING_43 >>
          [] Len(s) = 5 -> << c0, c1, c2, c3 >>

\* The bytes, five at a time, each block encoded; the last block may be short.
RECURSIVE encode_to_string(_)
encode_to_string(bytes) ==
    IF bytes = << >> THEN << >>
    ELSE IF Len(bytes) <= 5 THEN encode_chunk(bytes)
    ELSE encode_chunk(SubSeq(bytes, 1, 5))
             \o encode_to_string(SubSeq(bytes, 6, Len(bytes)))

\* A variant of EcojiLine::format_hash that parses complete pairs only and
\* drops the single character a string of odd length ends with.
EcojiLine_format_hash_PairsOnly(h) ==
    IF AllChunksParse(h)
    THEN encode_to_string([i \in 1..(Len(h) \div 2) |-> u8_from_str_radix16(Chunk(h, i))[1]])
    ELSE h

\* A variant of EcojiLine::format_hash that encodes the characters of the
\* digest text themselves (hash.as_bytes()) instead of the bytes they spell.
EcojiLine_format_hash_Text(h) ==
    IF AllChunksParse(h) THEN encode_to_string(h) ELSE h

\* EcojiLine::format_hash.  Reading from a byte slice cannot fail, so
\* encode_to_string returns Ok and its unwrap_or(hash) keeps the encoding.
EcojiLine_format_hash(h) ==
    IF AllChunksParse(h) THEN encode_to_string(ParsedBytes(h)) ELSE h

----------------------------------------------------------------------------
(* Line assembly.                                                          *)

Modes == { "ansi-colours", "ecoji", "1password" }

\* Self::format_hash of the type the mode selects.
Line_format_hash(m, h) ==
    CASE m = "ansi-colours" -> ANSIColouredLine_format_hash(h)
      [] m = "ecoji" -> EcojiLine_format_hash(h)
      [] m = "1password" -> OnePasswordLine_format_hash(h)

unwrap_or(opt, default) == IF opt = None THEN default ELSE opt[1]

\* A variant of slice_end that counts characters (chars().count() for len()).
slice_end_CharCount(line) == unwrap_or(line.formattable_end, Len(line.contents))

\* The two offsets to_formatted slices the contents at.
slice_start(line) == unwrap_or(line.formattable_start, 0)
slice_end(line) == unwrap_or(line.formattable_end, StrLen(line.contents))

\* Whether to_formatted panics: one of its three slices is out of range or
\* off a character boundary.
to_formatted_panics(line) ==
    /\ ~(line.formattable_start = None /\ line.formattable_end = None)
    /\ ~SliceOk(line.contents, slice_start(line), slice_end(line))

\* A variant of to_formatted that leaves out the slice after the digest span.
to_formatted_NoTail(line, m) ==
    IF line.formattable_start = None /\ line.formattable_end = None
    THEN line.contents
    ELSE Slice(line.contents, 0, slice_start(line))
             \o Line_format_hash(m, Slice(line.contents, slice_start(line), slice_end(line)))

\* A variant of to_formatted without the early return for an unclassified line.
to_formatted_NoEarlyReturn(line, m) ==
    Slice(line.contents, 0, slice_start(line))
        \o Line_format_hash(m, Slice(line.contents, slice_start(line), slice_end(line)))
        \o Slice(line.contents, slice_end(line), StrLen(line.contents))

\* Line::to_formatted: the text written to the formatter.
to_formatted(line, m) ==
    IF line.formattable_start = None /\ line.formattable_end = None
    THEN line.contents
    ELSE Slice(line.contents, 0, slice_start(line))
             \o Line_format_hash(m, Slice(line.contents, slice_start(line), slice_end(line)))
             \o Slice(line.contents, slice_end(line), StrLen(line.contents))

\* The FormattableLine held in the variables.
TheLine ==
    [contents |-> contents,
     formattable_start |-> formattable_start,
     formattable_end |-> formattable_end]

----------------------------------------------------------------------------
(* Inputs.                                                                 *)

\* The lines and digests of the repository's tests.
BsdTestLine ==
    Str(<< "M", "D", "5", " ", "(", ".", "/", "s", "r", "c", "/", "m", "a",
           "i", "n", ".", "r", "s", ")", " ", "=", " ", "b", "7", "5", "2",
           "7", "e", "0", "e", "2", "8", "c", "0", "9", "f", "6", "f", "6",
           "2", "d", "d", "2", "d", "4", "1", "9", "7", "d", "5", "d", "2",
           "2", "5" >>)
SumTestLine ==
    Str(<< "b", "7", "5", "2", "7", "e", "0", "e", "2", "8", "c", "0", "9",
           "f", "6", "f", "6", "2", "d", "d", "2", "d", "4", "1", "9", "7",
           "d", "5", "d", "2", "2", "5", " ", " ", ".", "/", "s", "r", "c",
           "/", "m", "a", "i", "n", ".", "r", "s" >>)
PlainTestLine ==
    Str(<< "A", "S", "D", "F" >>)
Md5TestDigest ==
    Str(<< "b", "7", "5", "2", "7", "e", "0", "e", "2", "8", "c", "0", "9",
           "f", "6", "f", "6", "2", "d", "d", "2", "d", "4", "1", "9", "7",
           "d", "5", "d", "2", "2", "5" >>)
Sha1TestDigest ==
    Str(<< "c", "c", "6", "9", "1", "7", "b", "8", "3", "0", "d", "a", "e",
           "3", "0", "5", "7", "6", "6", "d", "1", "d", "7", "2", "d", "7",
           "b", "d", "9", "f", "d", "c", "6", "7", "3", "2", "7", "2", "b",
           "2" >>)

\* All strings over an alphabet, up to a length.
StringsUpTo(alphabet, n) == UNION { [1..k -> alphabet] : k \in 0..n }

\* Lines: the separators' characters, a digit and a two-byte character.
LineAlphabet == { Ord(" "), Ord("="), Ord("7"), Ord("e-acute") }
Lines ==
    StringsUpTo(LineAlphabet, MaxLineLen)
        \cup { BsdTestLine, SumTestLine, PlainTestLine }

\* Digest spans: base-16 digits of both cases and a decimal digit, a letter
\* that is no base-16 digit, the two signs and a four-byte character; and
\* longer strings of base-16 digits, which fill whole Ecoji blocks.
HashAlphabet ==
    { Ord("0"), Ord("a"), Ord("F"), Ord("g"), Ord("+"), Ord("-"), Ord("smile") }
DigestAlphabet == { Ord("6"), Ord("b") }
Hashes ==
    StringsUpTo(HashAlphabet, MaxHashLen)
        \cup StringsUpTo(DigestAlphabet, MaxDigestLen)
        \cup { Md5TestDigest, Sha1TestDigest, PlainTestLine }

----------------------------------------------------------------------------
(* One line: construction, then display.                                   *)

InitLine ==
    /\ mode \in Modes
    /\ pc = "line"
    /\ contents \in Lines
    /\ formattable_start = None
    /\ formattable_end = None
    /\ formatted = << >>
    /\ hash = << >>
    /\ hash_result = << >>
    /\ input = << >>
    /\ nread = 0
    /\ output = << >>
    /\ result = "running"

\* Self::from(contents): the line is moved into a FormattableLine.
From ==
    /\ pc = "line"
    /\ contents' = FormattableLine_from(contents).contents
    /\ formattable_start' = FormattableLine_from(contents).formattable_start
    /\ formattable_end' = FormattableLine_from(contents).formattable_end
    /\ pc' = "constructed"
    /\ UNCHANGED << mode, formatted, hash, hash_result, input, nread, output, result >>

\* Display::fmt, which is to_formatted.
Display ==
    /\ pc = "constructed"
    /\ IF to_formatted_panics(TheLine)
       THEN /\ pc' = "panicked"
            /\ formatted' = formatted
       ELSE /\ pc' = "displayed"
            /\ formatted' = to_formatted(TheLine, mode)
    /\ UNCHANGED << mode, contents, formattable_start, formattable_end,
                    hash, hash_result, input, nread, output, result >>

NextLine == From \/ Display

SpecLine == InitLine /\ [][NextLine]_vars

----------------------------------------------------------------------------
(* One digest span: format_hash.                                           *)

InitHash ==
    /\ mode \in Modes
    /\ pc = "hash"
    /\ contents = << >>
    /\ formattable_start = None
    /\ formattable_end = None
    /\ formatted = << >>
    /\ hash \in Hashes
    /\ hash_result = << >>
    /\ input = << >>
    /\ nread = 0
    /\ output = << >>
    /\ result = "running"

\* Self::format_hash(hash).
FormatHash ==
    /\ pc = "hash"
    /\ hash_result' = Line_format_hash(mode, hash)
    /\ pc' = "hashed"
    /\ UNCHANGED << mode, contents, formattable_start, formattable_end, formatted,
                    hash, input, nread, output, result >>

NextHash == FormatHash

SpecHash == InitHash /\ [][NextHash]_vars

----------------------------------------------------------------------------
(* The driving loop: Line::coloursum(from, to).                            *)

\* The lines a reader may yield: an empty line, a BSD-style line, a GNU-style
\* line and a line of neither style.
LoopLines ==
    { << >>,
      Str(<< " ", "=", " ", "7", "f" >>),
      Str(<< "7", "f", " ", " ", "a" >>),
      PlainTestLine }
Inputs == UNION { [1..n -> LoopLines] : n \in 0..MaxLines }

\* The errors coloursum may return: the io::Error of the failed read, or that
\* of the failed write.
Errs == { "Err(read)", "Err(write)" }

InitLoop ==
    /\ mode \in Modes
    /\ pc = "loop"
    /\ contents = << >>
    /\ formattable_start = None
    /\ formattable_end = None
    /\ formatted = << >>
    /\ hash = << >>
    /\ hash_result = << >>
    /\ input \in Inputs
    /\ nread = 0
    /\ output = << >>
    /\ result = "running"

\* A variant of writeln that leaves out the line terminator (write! for writeln!).
writeln_NoTerminator(line, m) == to_formatted(FormattableLine_from(line), m)

\* What writeln!(to, "{}", Self::from(line)) hands to the writer: the line as
\* displayed, then the line terminator.
writeln(line, m) == to_formatted(FormattableLine_from(line), m) \o Str(<< "\n" >>)

\* One pass of the loop body with no failure: the next line is read, made
\* into a Line, displayed and written with its terminator.
Iterate ==
    /\ pc = "loop"
    /\ nread < Len(input)
    /\ nread' = nread + 1
    /\ IF to_formatted_panics(FormattableLine_from(input[nread + 1]))
       THEN /\ pc' = "panicked"
            /\ output' = output
       ELSE /\ pc' = "loop"
            /\ output' = output \o writeln(input[nread + 1], mode)
    /\ UNCHANGED << mode, contents, formattable_start, formattable_end, formatted,
                    hash, hash_result, input, result >>

\* The iterator yields an error: wrapped_line? returns it.
ReadFail ==
    /\ pc = "loop"
    /\ nread <= Len(input)
    /\ pc' = "done"
    /\ result' = "Err(read)"
    /\ UNCHANGED << mode, contents, formattable_start, formattable_end, formatted,
                    hash, hash_result, input, nread, output >>

\* A variant of WriteFail in which the error of the write is dropped and the
\* loop goes on (let _ = writeln!(..) for writeln!(..)?).
WriteFail_Ignored ==
    /\ pc = "loop"
    /\ nread < Len(input)
    /\ ~to_formatted_panics(FormattableLine_from(input[nread + 1]))
    /\ nread' = nread + 1
    /\ \E k \in 0..(Len(writeln(input[nread + 1], mode)) - 1) :
           output' = output \o SubSeq(writeln(input[nread + 1], mode), 1, k)
    /\ UNCHANGED << mode, pc, contents, formattable_start, formattable_end, formatted,
                    hash, hash_result, input, result >>

\* The writer fails while the line is written: writeln!(..)? returns the
\* error.  The writer may have taken any part of the line before it failed.
WriteFail ==
    /\ pc = "loop"
    /\ nread < Len(input)
    /\ ~to_formatted_panics(FormattableLine_from(input[nread + 1]))
    /\ nread' = nread + 1
    /\ \E k \in 0..(Len(writeln(input[nread + 1], mode)) - 1) :
           output' = output \o SubSeq(writeln(input[nread + 1], mode), 1, k)
    /\ pc' = "done"
    /\ result' = "Err(write)"
    /\ UNCHANGED << mode, contents, formattable_start, formattable_end, formatted,
                    hash, hash_result, input >>

\* The iterator is exhausted: the loop ends and coloursum returns Ok(()).
Finish ==
    /\ pc = "loop"
    /\ nread = Len(input)
    /\ pc' = "done"
    /\ result' = "Ok"
    /\ UNCHANGED << mode, contents, formattable_start, formattable_end, formatted,
                    hash, hash_result, input, nread, output >>

NextLoop == Iterate \/ ReadFail \/ WriteFail \/ Finish

SpecLoop == InitLoop /\ [][NextLoop]_vars

----------------------------------------------------------------------------
(* Properties of the classifier and of line assembly, under SpecLine.      *)

\* The line has " = " at character position k (counted from 0).
BsdAt(s, k) ==
    /\ k >= 0
    /\ k + 3 <= Len(s)
    /\ s[k + 1] = 32
    /\ s[k + 2] = 61
    /\ s[k + 3] = 32

\* The line has two consecutive spaces at character position k (from 0).
TwoSpacesAt(s, k) ==
    /\ k >= 0
    /\ k + 2 <= Len(s)
    /\ s[k + 1] = 32
    /\ s[k + 2] = 32

HasBsd(s) == \E k \in 0..Len(s) : BsdAt(s, k)
HasTwoSpaces(s) == \E k \in 0..Len(s) : TwoSpacesAt(s, k)

\* The record has been constructed from the line.
Constructed == pc \in { "constructed", "displayed", "panicked" }

\* C1: line assembly.  Once a line is displayed under any formatter variant:
\* classified SuffixFrom(s), the output is contents[0..s] followed by
\* format(contents[s..end]); classified PrefixTo(e), it is format(contents[0..e])
\* followed by contents[e..end].  What lies outside the digest span is output
\* unchanged and in place, and every classified line is displayed.
C1_LineAssembly ==
    /\ pc # "panicked"
    /\ pc = "displayed" =>
         /\ formattable_start # None =>
              LET s == CharsBefore(contents, formattable_start[1])
              IN  formatted = SubSeq(contents, 1, s)
                      \o Line_format_hash(mode, SubSeq(contents, s + 1, Len(contents)))
         /\ formattable_end # None =>
              LET e == CharsBefore(contents, formattable_end[1])
              IN  formatted = Line_format_hash(mode, SubSeq(contents, 1, e))
                      \o SubSeq(contents, e + 1, Len(contents))

\* A displayed suffix-form line whose digest span was decorated.
C1_Witness ==
    /\ pc = "displayed"
    /\ formattable_start # None
    /\ formattable_start[1] > 3
    /\ formatted # contents

\* C2: the passthrough law.  A line with neither " = " nor two consecutive
\* spaces is classified None and is output exactly as it came in, under every
\* formatter variant: no part of it is formatted.
C2_Passthrough ==
    (Constructed /\ ~HasBsd(contents) /\ ~HasTwoSpaces(contents)) =>
        /\ formattable_start = None
        /\ formattable_end = None
        /\ pc # "panicked"
        /\ pc = "displayed" => formatted = contents

\* A displayed unclassified line that format_hash would have changed.
C2_Witness ==
    /\ pc = "displayed"
    /\ ~HasBsd(contents)
    /\ ~HasTwoSpaces(contents)
    /\ contents # << >>
    /\ Line_format_hash(mode, contents) # contents

\* C3: the last-occurrence rule.  A line containing " = " is classified
\* SuffixFrom(o + 3), o the byte offset of the last " = " in it.
C3_LastOccurrence ==
    Constructed =>
        \A k \in 0..Len(contents) :
            (BsdAt(contents, k) /\ \A j \in (k + 1)..Len(contents) : ~BsdAt(contents, j))
                => formattable_start = Some(ByteOffset(contents, k) + 3)

\* A constructed line with " = " at two places, after a two-byte character.
C3_Witness ==
    /\ pc = "constructed"
    /\ \E j, k \in 0..Len(contents) :
           j < k /\ BsdAt(contents, j) /\ BsdAt(contents, k)
    /\ contents[1] = 233

\* C4: the GNU/Perl rule.  A line with no " = " is classified PrefixTo(o), o
\* the byte offset of the first two consecutive spaces, and None when it has
\* no two consecutive spaces (the empty line among them).
C4_SumPrefixed ==
    (Constructed /\ ~HasBsd(contents)) =>
        /\ formattable_start = None
        /\ \A k \in 0..Len(contents) :
               (TwoSpacesAt(contents, k) /\ \A j \in 0..(k - 1) : ~TwoSpacesAt(contents, j))
                   => formattable_end = Some(ByteOffset(contents, k))
        /\ ~HasTwoSpaces(contents) => formattable_end = None

\* A constructed line with no " = " and two consecutive spaces at two places.
C4_Witness ==
    /\ pc = "constructed"
    /\ ~HasBsd(contents)
    /\ \E j, k \in 0..Len(contents) :
           j < k /\ TwoSpacesAt(contents, j) /\ TwoSpacesAt(contents, k)
    /\ contents[1] # 32

\* C5: BSD precedence.  A line with both " = " and two consecutive spaces, in
\* either order, is classified SuffixFrom(last " = " offset + 3), never PrefixTo.
C5_BsdPrecedence ==
    (Constructed /\ HasBsd(contents) /\ HasTwoSpaces(contents)) =>
        /\ formattable_end = None
        /\ formattable_start # None
        /\ BsdAt(contents, CharsBefore(contents, formattable_start[1]) - 3)
        /\ \A j \in 0..Len(contents) :
               BsdAt(contents, j) => ByteOffset(contents, j) + 3 <= formattable_start[1]

\* A constructed line whose two spaces come before its " = ".
C5_Witness ==
    /\ pc = "constructed"
    /\ \E j, k \in 0..Len(contents) :
           j + 2 <= k /\ TwoSpacesAt(contents, j) /\ BsdAt(contents, k)

\* A constructed line whose two spaces come after its " = ".
C5_WitnessAfter ==
    /\ pc = "constructed"
    /\ \E j, k \in 0..Len(contents) :
           k + 3 <= j /\ TwoSpacesAt(contents, j) /\ BsdAt(contents, k)

----------------------------------------------------------------------------
(* Properties of the digest formatters, under SpecHash.                    *)

\* The place of a character in a string (0 when it is not there).
IndexIn(c, s) == IF \E i \in 1..Len(s) : s[i] = c
                 THEN CHOOSE i \in 1..Len(s) : s[i] = c
                 ELSE 0

\* Whether a character is a base-16 digit, and its value, read off the digits.
LowerDigits ==
    Str(<< "0", "1", "2", "3", "4", "5", "6", "7", "8", "9", "a", "b", "c", "d", "e", "f" >>)
UpperDigits ==
    Str(<< "0", "1", "2", "3", "4", "5", "6", "7", "8", "9", "A", "B", "C", "D", "E", "F" >>)
IsHexDigit(c) == IndexIn(c, LowerDigits) > 0 \/ IndexIn(c, UpperDigits) > 0
HexDigitValue(c) ==
    IF IndexIn(c, LowerDigits) > 0 THEN IndexIn(c, LowerDigits) - 1
    ELSE IndexIn(c, UpperDigits) - 1


\* The strings of a sequence, one after the other.
RECURSIVE ConcatAll(_)
ConcatAll(ss) == IF ss = << >> THEN << >> ELSE Head(ss) \o ConcatAll(Tail(ss))

\* The decimal digits of a byte value, written out by cases.
ByteInDecimal(v) ==
    IF v < 10 THEN << 48 + v >>
    ELSE IF v < 100 THEN << 48 + (v \div 10), 48 + (v % 10) >>
    ELSE << 48 + (v \div 100), 48 + ((v \div 10) % 10), 48 + (v % 10) >>

\* ESC[38;5;<v>m<text>ESC[0m
Wrapped(v, text) ==
    << 27, 91, 51, 56, 59, 53, 59 >> \o ByteInDecimal(v) \o << 109 >> \o text
        \o << 27, 91, 48, 109 >>

Hashed == pc = "hashed"

\* C6: the ANSI-colour success path.  When every 2-character chunk of the
\* string parses as a base-16 byte, format returns the chunks in order, each
\* wrapped as ESC[38;5;<v>m<chunk>ESC[0m, v the chunk's value in decimal; a
\* chunk of two base-16 digits has the value 16 * first + second, so the chunk
\* b7 is wrapped with colour 183.
C6_AnsiSuccess ==
    (Hashed /\ mode = "ansi-colours" /\ AllChunksParse(hash)) =>
        /\ hash_result =
               ConcatAll([i \in 1..NumChunks(hash) |->
                   Wrapped(u8_from_str_radix16(Chunk(hash, i))[1], Chunk(hash, i))])
        /\ \A i \in 1..NumChunks(hash) :
               (Len(Chunk(hash, i)) = 2 /\ \A j \in 1..2 : IsHexDigit(Chunk(hash, i)[j])) =>
                   u8_from_str_radix16(Chunk(hash, i))[1] =
                       16 * HexDigitValue(Chunk(hash, i)[1]) + HexDigitValue(Chunk(hash, i)[2])
        /\ hash = Md5TestDigest =>
               SubSeq(hash_result, 1, 16) =
                   << 27, 91, 51, 56, 59, 53, 59, 49, 56, 51, 109, 98, 55, 27, 91, 48 >>

\* Two chunks of base-16 digits were coloured, with different colours.
C6_Witness ==
    /\ Hashed
    /\ mode = "ansi-colours"
    /\ Len(hash) = 4
    /\ \A j \in 1..4 : IsHexDigit(hash[j])
    /\ Chunk(hash, 1) # Chunk(hash, 2)
    /\ hash_result # hash

\* The number of ASCII digits among the first k characters.
DigitsBefore(s, k) == Cardinality({ j \in 1..k : s[j] >= 48 /\ s[j] <= 57 })

\* Where the piece of the i-th character starts in the digit-highlight output:
\* each digit before it took 13 characters of escapes more.
PieceStart(s, i) == i + 13 * DigitsBefore(s, i - 1)

\* C8: digit-highlight total coverage.  For every string the output is, in
\* order and one piece per character, ESC[38;5;4m<c>ESC[0m for an ASCII digit c
\* and c itself for any other character: nothing else is output, and the
\* variant never falls back.
C8_DigitHighlight ==
    (Hashed /\ mode = "1password") =>
        /\ Len(hash_result) = Len(hash) + 13 * DigitsBefore(hash, Len(hash))
        /\ \A i \in 1..Len(hash) :
               IF hash[i] >= 48 /\ hash[i] <= 57
               THEN SubSeq(hash_result, PieceStart(hash, i), PieceStart(hash, i) + 13)
                        = << 27, 91, 51, 56, 59, 53, 59, 52, 109, hash[i], 27, 91, 48, 109 >>
               ELSE hash_result[PieceStart(hash, i)] = hash[i]

\* A string with digits, a base-16 letter, another letter and a four-byte
\* character was highlighted.
C8_Witness ==
    /\ Hashed
    /\ mode = "1password"
    /\ \E i, j, k, l \in 1..Len(hash) :
           /\ hash[i] = 48
           /\ hash[j] = 97
           /\ hash[k] = 128516
           /\ hash[l] = 48
           /\ i < j /\ j < l

\* C7: fallback idempotence of the ANSI-colour and Ecoji variants.  format(x)
\* is x for the empty string and for every x with at least one character that
\* is not a base-16 digit (another letter, a sign, a multi-byte character).
C7_FallbackIdempotence ==
    (/\ Hashed
     /\ mode \in { "ansi-colours", "ecoji" }
     /\ (hash = << >> \/ \E i \in 1..Len(hash) : ~IsHexDigit(hash[i])))
        => hash_result = hash

\* The b-th block of five bytes (b from 1) as a number of 40 bits, kept as its
\* upper 16 and lower 24 bits, and the g-th group of 10 bits of that number
\* (g from 0, the most significant first).
BlockHi(bytes, b) == bytes[5 * b - 4] * 256 + bytes[5 * b - 3]
BlockLo(bytes, b) == bytes[5 * b - 2] * 65536 + bytes[5 * b - 1] * 256 + bytes[5 * b]
TenBits(hi, lo, g) ==
    CASE g = 0 -> hi \div 64
      [] g = 1 -> (hi % 64) * 16 + (lo \div 1048576)
      [] g = 2 -> (lo \div 1024) % 1024
      [] g = 3 -> lo % 1024

Paddings == { PADDING, PADDING_40, PADDING_41, PADDING_42, PADDING_43 }

\* C9: the Ecoji success path.  When every 2-character chunk parses as a
\* base-16 byte, giving n bytes in order, format returns their Ecoji encoding:
\* 4 symbols for each full block of 5 bytes, chosen by the block's four
\* successive groups of 10 bits, and a last partial block padded to 4 symbols;
\* 4 * ceil(n / 5) symbols in all, 16 for a digest of 16 or of 20 bytes.
C9_EcojiSuccess ==
    (Hashed /\ mode = "ecoji" /\ AllChunksParse(hash)) =>
        LET bytes == ParsedBytes(hash)
            n == Len(bytes)
        IN  /\ Len(hash_result) = 4 * ((n + 4) \div 5)
            /\ \A b \in 1..(n \div 5) : \A g \in 0..3 :
                   hash_result[4 * (b - 1) + g + 1] =
                       EMOJIS(TenBits(BlockHi(bytes, b), BlockLo(bytes, b), g))
            /\ n % 5 # 0 =>
                   /\ hash_result[Len(hash_result)] \in Paddings
                   /\ hash_result[Len(hash_result) - 3] \notin Paddings
            /\ hash \in { Md5TestDigest, Sha1TestDigest } => Len(hash_result) = 16

\* A full block followed by a partial block was encoded.
C9_Witness ==
    /\ Hashed
    /\ mode = "ecoji"
    /\ Len(hash) = 12
    /\ AllChunksParse(hash)
    /\ Len(hash_result) = 8
    /\ hash[1] # hash[2]

----------------------------------------------------------------------------
(* Properties of the driving loop, under SpecLoop.                         *)

\* The lines of a stream: the text before each line terminator, in order
\* (`cur` is the line being read).  Text after the last terminator is kept as
\* a last, unterminated line.
RECURSIVE SplitLines(_, _)
SplitLines(s, cur) ==
    IF s = << >> THEN (IF cur = << >> THEN << >> ELSE << cur >>)
    ELSE IF Head(s) = 10 THEN << cur >> \o SplitLines(Tail(s), << >>)
    ELSE SplitLines(Tail(s), cur \o << Head(s) >>)

\* The number of line terminators in a stream.
Terminators(s) == Cardinality({ i \in 1..Len(s) : s[i] = 10 })

\* C10: the driving loop without I/O failure.  While no read or write has
\* failed, the writer holds exactly one terminated line for each line read, in
\* input order, the i-th being the assembled form of the i-th input line alone;
\* and when coloursum returns Ok it has read and written all n lines.
C10_LoopOutput ==
    /\ pc # "panicked"
    /\ result \notin Errs =>
         /\ Terminators(output) = nread
         /\ (output # << >> => output[Len(output)] = 10)
         /\ SplitLines(output, << >>) =
                [i \in 1..nread |-> to_formatted(FormattableLine_from(input[i]), mode)]
    /\ result = "Ok" => (pc = "done" /\ nread = Len(input))

\* coloursum returned Ok after three lines, of which the first was decorated,
\* the second was not and the third was again.
C10_Witness ==
    /\ pc = "done"
    /\ result = "Ok"
    /\ Len(input) = 3
    /\ input[1] = input[3]
    /\ input[1] # input[2]
    /\ to_formatted(FormattableLine_from(input[1]), mode) # input[1]
    /\ to_formatted(FormattableLine_from(input[2]), mode) = input[2]


\* The complete output of the first k input lines.
CompleteOutput(k) ==
    ConcatAll([i \in 1..k |-> to_formatted(FormattableLine_from(input[i]), mode) \o << 10 >>])

\* C11 as stated: when the read or the write of the k-th line fails, coloursum
\* returns the error at once and the writer holds exactly the outputs of the
\* lines 1..k-1.
C11_ExactlyEarlierLines ==
    /\ result = "Err(read)" => (pc = "done" /\ output = CompleteOutput(nread))
    /\ result = "Err(write)" => (pc = "done" /\ output = CompleteOutput(nread - 1))

\* C11, amended: when the read or the write of the k-th line fails, coloursum
\* returns the error at once, having read no line after the k-th.  After a
\* failed read the writer holds exactly the outputs of the lines 1..k-1; after
\* a failed write it holds these, in order, followed by the part of the k-th
\* output line it took before it failed, which lacks at least the line
\* terminator.  No digest content makes the loop fail.
C11_FailureOutput ==
    /\ pc # "panicked"
    /\ result = "Err(read)" =>
         /\ pc = "done"
         /\ Terminators(output) = nread
         /\ (output # << >> => output[Len(output)] = 10)
         /\ SplitLines(output, << >>) =
                [i \in 1..nread |-> to_formatted(FormattableLine_from(input[i]), mode)]
    /\ result = "Err(write)" =>
         /\ pc = "done"
         /\ nread >= 1
         /\ Terminators(output) = nread - 1
         /\ \A i \in 1..(nread - 1) :
                SplitLines(output, << >>)[i] =
                    to_formatted(FormattableLine_from(input[i]), mode)
         /\ LET written == Len(output) - Len(CompleteOutput(nread - 1))
                last == to_formatted(FormattableLine_from(input[nread]), mode)
            IN  /\ written >= 0
                /\ written <= Len(last)
                /\ SubSeq(output, Len(output) - written + 1, Len(output))
                       = SubSeq(last, 1, written)

\* The write of the second of three lines failed after the writer had taken
\* a part of it.
C11_Witness ==
    /\ pc = "done"
    /\ result = "Err(write)"
    /\ Len(input) = 3
    /\ nread = 2
    /\ Len(output) > Len(CompleteOutput(1))
    /\ input[2] \notin { << >>, PlainTestLine }

----------------------------------------------------------------------------
(* Further properties of the digest formatters, under SpecHash.            *)

\* C12: a digest span of odd length, under the ANSI-colour and Ecoji variants.
\* The last chunk of a string of odd length is a single character, and format
\* returns the string unmodified, even when it holds base-16 digits only.
C12_OddLengthFallback ==
    (Hashed /\ mode \in { "ansi-colours", "ecoji" } /\ Len(hash) % 2 = 1) =>
        /\ Len(Chunk(hash, NumChunks(hash))) = 1
        /\ hash_result = hash


----------------------------------------------------------------------------
(* Digests of whole Ecoji blocks, formatted by the Ecoji variant.          *)

\* A byte written as two lower-case base-16 digits, as the checksum tools do.
ByteInHex(b) == << LowerDigits[(b \div 16) + 1], LowerDigits[(b % 16) + 1] >>

\* The digest text of a byte sequence.
DigestText(bytes) == ConcatAll([i \in 1..Len(bytes) |-> ByteInHex(bytes[i])])

\* Blocks of five bytes: every block over bytes with none, one, half, all but
\* one and all bits set at either end, and pairs of blocks over two bytes.
BlockBytes == { 0, 1, 15, 128, 165, 255 }
PairBytes == { 60, 195 }
BlockDigests ==
    { DigestText(b) : b \in [1..5 -> BlockBytes] }
        \cup { DigestText(a \o b) : a, b \in [1..5 -> PairBytes] }
        \cup { Sha1TestDigest }

InitEcoji ==
    /\ mode = "ecoji"
    /\ pc = "hash"
    /\ contents = << >>
    /\ formattable_start = None
    /\ formattable_end = None
    /\ formatted = << >>
    /\ hash \in BlockDigests
    /\ hash_result = << >>
    /\ input = << >>
    /\ nread = 0
    /\ output = << >>
    /\ result = "running"

SpecEcoji == InitEcoji /\ [][NextHash]_vars

\* The bytes a digest text of base-16 digit pairs spells.
SpelledBytes(h) ==
    [i \in 1..(Len(h) \div 2) |->
        16 * HexDigitValue(h[2 * i - 1]) + HexDigitValue(h[2 * i])]

\* The inverse of the emoji alphabet: the index of a symbol, -1 for a
\* character that is no symbol of the alphabet.
IndexOf(sym) ==
    IF \E i \in 0..1023 : EMOJIS(i) = sym
    THEN CHOOSE i \in 0..1023 : EMOJIS(i) = sym
    ELSE -1

\* The five bytes four alphabet indices of 10 bits carry.
DecodeIndices(i0, i1, i2, i3) ==
    << i0 \div 4,
       (i0 % 4) * 64 + (i1 \div 16),
       (i1 % 16) * 16 + (i2 \div 64),
       (i2 % 64) * 4 + (i3 \div 256),
       i3 % 256 >>

\* The bytes of a string of whole groups of four alphabet symbols.
RECURSIVE Decode(_)
Decode(syms) ==
    IF Len(syms) < 4 THEN << >>
    ELSE DecodeIndices(IndexOf(syms[1]), IndexOf(syms[2]), IndexOf(syms[3]), IndexOf(syms[4]))
             \o Decode(SubSeq(syms, 5, Len(syms)))

\* C13: the Ecoji round trip.  For a digest of a whole number of 5-byte
\* blocks, the output of the Ecoji variant is made of alphabet symbols only,
\* four for each block, and decoding it with the inverse of the alphabet gives
\* back the digest's bytes, in order; so no two such byte sequences format to
\* the same string.
C13_EcojiRoundTrip ==
    (Hashed /\ mode = "ecoji" /\ Len(hash) % 10 = 0
        /\ \A i \in 1..Len(hash) : IsHexDigit(hash[i])) =>
        /\ Len(hash_result) = 4 * (Len(hash) \div 10)
        /\ \A k \in 1..Len(hash_result) : IndexOf(hash_result[k]) >= 0
        /\ Decode(hash_result) = SpelledBytes(hash)

\* Two blocks that differ from each other were encoded.
C13_Witness ==
    /\ Hashed
    /\ mode = "ecoji"
    /\ Len(hash) = 20
    /\ Len(hash_result) = 8
    /\ SubSeq(hash, 1, 10) # SubSeq(hash, 11, 20)
    /\ hash # Sha1TestDigest


----------------------------------------------------------------------------
(* Further properties of the record and of line assembly, under SpecLine.  *)

\* C14: the span-marker invariant.  The FormattableLine constructed from a
\* line never has both formattable_start and formattable_end set, its contents
\* are the line exactly as it came in, and once constructed the record is not
\* modified: displaying it leaves its three fields as they are.
C14_SpanMarkers ==
    /\ [](~(formattable_start # None /\ formattable_end # None))
    /\ [][/\ pc = "line" => contents' = contents
          /\ pc # "line" =>
                UNCHANGED << contents, formattable_start, formattable_end >>]_vars

\* A line with both " = " and two consecutive spaces was constructed and
\* displayed.
C14_Witness ==
    /\ pc = "displayed"
    /\ HasBsd(contents)
    /\ HasTwoSpaces(contents)
    /\ formattable_start # None
    /\ formatted # << >>


\* The record has a digest span: one of its markers is set.
Classified == formattable_start # None \/ formattable_end # None

\* C15: slice safety of assembly.  For every classified line the offsets
\* to_formatted slices at satisfy 0 <= slice_start <= slice_end <= the byte
\* length of the contents and lie on character boundaries, so that no slice
\* panics; and a line whose digest span is empty is output as it came in,
\* under every variant.
C15_SliceSafety ==
    /\ pc # "panicked"
    /\ (Constructed /\ Classified) =>
         /\ 0 <= slice_start(TheLine)
         /\ slice_start(TheLine) <= slice_end(TheLine)
         /\ slice_end(TheLine) <= StrLen(contents)
         /\ \E j, k \in 0..Len(contents) :
                /\ j <= k
                /\ ByteOffset(contents, j) = slice_start(TheLine)
                /\ ByteOffset(contents, k) = slice_end(TheLine)
    /\ (pc = "displayed" /\ Classified /\ slice_start(TheLine) = slice_end(TheLine)) =>
         formatted = contents

\* A line that starts with a two-byte character and ends in " = " was
\* displayed: its digest span is empty.
C15_Witness ==
    /\ pc = "displayed"
    /\ formattable_start = Some(StrLen(contents))
    /\ contents[1] = 233
    /\ StrLen(contents) > Len(contents)

\* A line that starts with two spaces was displayed: its digest span is empty.
C15_WitnessPrefix ==
    /\ pc = "displayed"
    /\ formattable_end = Some(0)
    /\ \E i \in 1..Len(contents) : contents[i] = 233

=============================================================================
